---- MODULE Spec2Model ----
(***************************************************************************)
(* A model of codex-rs/core/src/dns_fallback.rs: the Termux DNS fallback   *)
(* resolver.  Text is a sequence of one-character strings, an OsString is  *)
(* a sequence of such units that may also hold BadByte, a unit that is not *)
(* valid Unicode.                                                          *)
(***************************************************************************)
EXTENDS Integers, Sequences, FiniteSets, TLC

VARIABLES
    is_android,      \* cfg!(target_os = "android")
    termux_version,  \* std::env::var_os("TERMUX_VERSION")
    prefix,          \* std::env::var_os("PREFIX")
    install,         \* what should_install_termux_resolver returned
    lines_in,        \* the lines the text under parse was written from
    content,         \* the text handed to add_nameservers_from_resolv_conf
    config,          \* the ResolverConfig the parser appends to
    parse_done,      \* add_nameservers_from_resolv_conf has returned
    system_conf,     \* what read_system_conf() yields on this machine
    files,           \* the file system: path -> outcome of read_to_string
    resolver,        \* the TokioResolver behind the Arc of TermuxResolver
    new_result,      \* what TermuxResolver::new returned
    handles,         \* live TermuxResolver values (the original and clones)
    calls,           \* the futures returned by resolve
    dns,             \* the lookups the DNS client holds, one slot per future
    probes           \* how often each configuration source was consulted

vars == <<is_android, termux_version, prefix, install, lines_in, content,
          config, parse_done, system_conf, files, resolver, new_result,
          handles, calls, dns, probes>>

detectVars == <<is_android, termux_version, install>>
parseVars == <<lines_in, content, config, parse_done>>
resolverVars == <<system_conf, files, resolver, new_result, handles, calls,
                  dns, probes>>

-----------------------------------------------------------------------------
(* Option and text helpers *)

None == [some |-> FALSE, v |-> <<>>]
Some(s) == [some |-> TRUE, v |-> s]

BadByte == "<FF>"

\* body(v) with v evaluated once: the value of a local `let`
Bind(v, body(_)) == CHOOSE out \in {body(x) : x \in {v}} : TRUE

RECURSIVE Concat(_)
Concat(ss) == IF ss = <<>> THEN <<>> ELSE Head(ss) \o Concat(Tail(ss))

starts_with(s, pat) ==
    /\ Len(s) >= Len(pat)
    /\ SubSeq(s, 1, Len(pat)) = pat

RECURSIVE contains(_, _)
contains(s, pat) ==
    IF Len(s) < Len(pat) THEN FALSE
    ELSE IF starts_with(s, pat) THEN TRUE
    ELSE contains(Tail(s), pat)

\* OsString::into_string: Ok(String) only when every unit is valid Unicode
into_string_ok(os) ==
    IF \A i \in 1..Len(os) : os[i] # BadByte THEN Some(os) ELSE None

-----------------------------------------------------------------------------
(* should_install_termux_resolver_with *)

TermuxFragment == <<"/", "c", "o", "m", ".", "t", "e", "r", "m", "u", "x", "/">>

\* a detector that takes an empty TERMUX_VERSION for an absent one
should_install_ignoring_empty_version(android, version, pfx) ==
    \/ android
    \/ version.some /\ version.v # <<>>
    \/ \E s \in {IF pfx.some THEN into_string_ok(pfx.v) ELSE None} :
          s.some /\ contains(s.v, TermuxFragment)

should_install_termux_resolver_with(android, version, pfx) ==
    \/ android
    \/ version.some
    \/ \E s \in {IF pfx.some THEN into_string_ok(pfx.v) ELSE None} :
          s.some /\ contains(s.v, TermuxFragment)

should_install_termux_resolver ==
    /\ ~install.called
    /\ install' = [called |-> TRUE,
                   result |-> should_install_termux_resolver_with(
                                  is_android, termux_version, prefix)]
    /\ UNCHANGED <<is_android, termux_version, prefix>>
    /\ UNCHANGED parseVars
    /\ UNCHANGED resolverVars

-----------------------------------------------------------------------------
(* str::lines, str::trim, str::trim_start_matches *)

Whitespace == {" ", "\t", "\n", "\r", "\f"}

RECURSIVE trim_start(_)
trim_start(s) ==
    IF s # <<>> /\ Head(s) \in Whitespace THEN trim_start(Tail(s)) ELSE s

RECURSIVE trim_end(_)
trim_end(s) ==
    IF s # <<>> /\ s[Len(s)] \in Whitespace
    THEN trim_end(SubSeq(s, 1, Len(s) - 1))
    ELSE s

trim(s) == trim_end(trim_start(s))

RECURSIVE trim_start_matches(_, _)
trim_start_matches(s, pat) ==
    IF pat # <<>> /\ starts_with(s, pat)
    THEN trim_start_matches(SubSeq(s, Len(pat) + 1, Len(s)), pat)
    ELSE s

strip_cr(l) ==
    IF l # <<>> /\ l[Len(l)] = "\r" THEN SubSeq(l, 1, Len(l) - 1) ELSE l

RECURSIVE lines(_)
lines(s) ==
    IF s = <<>> THEN <<>>
    ELSE IF \E i \in 1..Len(s) : s[i] = "\n"
    THEN Bind(CHOOSE k \in 1..Len(s) :
                  /\ s[k] = "\n"
                  /\ \A j \in 1..(k - 1) : s[j] # "\n",
              LAMBDA i : <<strip_cr(SubSeq(s, 1, i - 1))>>
                             \o lines(SubSeq(s, i + 1, Len(s))))
    ELSE <<s>>

-----------------------------------------------------------------------------
(* str::parse::<IpAddr>: the parser of core::net, a cursor over the text *)

DecDigits == <<"0", "1", "2", "3", "4", "5", "6", "7", "8", "9">>
HexLower == DecDigits \o <<"a", "b", "c", "d", "e", "f">>
HexUpper == DecDigits \o <<"A", "B", "C", "D", "E", "F">>

is_digit(c, radix) ==
    \E d \in 1..radix : HexLower[d] = c \/ HexUpper[d] = c

to_digit(c, radix) ==
    (CHOOSE d \in 1..radix : HexLower[d] = c \/ HexUpper[d] = c) - 1

Fail(pos) == [ok |-> FALSE, val |-> <<>>, pos |-> pos]

RECURSIVE digit_run(_, _, _)
digit_run(s, pos, radix) ==
    IF pos >= 1 /\ pos <= Len(s) /\ is_digit(s[pos], radix)
    THEN 1 + digit_run(s, pos + 1, radix)
    ELSE 0

RECURSIVE digits_value(_, _, _, _)
digits_value(s, pos, n, radix) ==
    IF n = 0 THEN 0
    ELSE digits_value(s, pos, n - 1, radix) * radix
             + to_digit(s[pos + n - 1], radix)

\* Parser::read_number; max_value is the largest value of the integer type
read_number(s, pos, radix, max_digits, allow_zero_prefix, max_value) ==
    Bind(digit_run(s, pos, radix), LAMBDA n :
        IF n = 0 \/ n > max_digits THEN Fail(pos)
        ELSE IF ~allow_zero_prefix /\ s[pos] = "0" /\ n > 1 THEN Fail(pos)
        ELSE Bind(digits_value(s, pos, n, radix), LAMBDA value :
                 IF value > max_value THEN Fail(pos)
                 ELSE [ok |-> TRUE, val |-> <<value>>, pos |-> pos + n]))

\* Parser::read_separator: the separator is read before every item but the
\* first; where the item starts, or 0 when the separator is missing
after_separator(s, pos, sep, index) ==
    IF index = 0 THEN pos
    ELSE IF pos <= Len(s) /\ s[pos] = sep THEN pos + 1
    ELSE 0

RECURSIVE read_ipv4_octets(_, _, _, _)
read_ipv4_octets(s, pos, index, acc) ==
    IF index = 4 THEN [ok |-> TRUE, val |-> acc, pos |-> pos]
    ELSE Bind(read_number(s, after_separator(s, pos, ".", index), 10, 3,
                          FALSE, 255),
              LAMBDA r :
                  IF ~r.ok THEN Fail(pos)
                  ELSE read_ipv4_octets(s, r.pos, index + 1, acc \o r.val))

read_ipv4_addr(s, pos) ==
    Bind(read_ipv4_octets(s, pos, 0, <<>>), LAMBDA r :
        IF r.ok THEN r ELSE Fail(pos))

RECURSIVE read_groups(_, _, _, _, _)
read_groups(s, pos, index, limit, acc) ==
    IF index >= limit
    THEN [n |-> index, ipv4 |-> FALSE, groups |-> acc, pos |-> pos]
    ELSE Bind(IF index < limit - 1
              THEN read_ipv4_addr(s, after_separator(s, pos, ":", index))
              ELSE Fail(pos),
              LAMBDA v4 :
         IF v4.ok
         THEN [n |-> index + 2, ipv4 |-> TRUE,
               groups |-> acc \o <<v4.val[1] * 256 + v4.val[2],
                                   v4.val[3] * 256 + v4.val[4]>>,
               pos |-> v4.pos]
         ELSE Bind(read_number(s, after_separator(s, pos, ":", index), 16,
                               4, TRUE, 65535),
                   LAMBDA g :
                       IF g.ok
                       THEN read_groups(s, g.pos, index + 1, limit,
                                        acc \o g.val)
                       ELSE [n |-> index, ipv4 |-> FALSE, groups |-> acc,
                             pos |-> pos]))

read_ipv6_addr(s, pos) ==
    Bind(read_groups(s, pos, 0, 8, <<>>), LAMBDA head :
        IF head.n = 8
        THEN [ok |-> TRUE, val |-> head.groups, pos |-> head.pos]
        ELSE IF head.ipv4 THEN Fail(pos)
        ELSE IF ~(/\ head.pos + 1 <= Len(s)
                  /\ s[head.pos] = ":"
                  /\ s[head.pos + 1] = ":") THEN Fail(pos)
        ELSE Bind(read_groups(s, head.pos + 2, 0, 8 - (head.n + 1), <<>>),
                  LAMBDA tail :
                      [ok |-> TRUE,
                       val |-> head.groups
                                 \o [i \in 1..(8 - head.n - tail.n) |-> 0]
                                 \o tail.groups,
                       pos |-> tail.pos]))

V4(octets) == [v |-> 4, parts |-> octets]
V6(groups) == [v |-> 6, parts |-> groups]

\* <IpAddr as FromStr>::from_str(s).ok(): the whole text must be consumed
parse_IpAddr(s) ==
    Bind(read_ipv4_addr(s, 1), LAMBDA r4 :
        IF r4.ok
        THEN (IF r4.pos = Len(s) + 1 THEN Some(V4(r4.val)) ELSE None)
        ELSE Bind(read_ipv6_addr(s, 1), LAMBDA r6 :
                 IF r6.ok /\ r6.pos = Len(s) + 1 THEN Some(V6(r6.val))
                 ELSE None))

-----------------------------------------------------------------------------
(* add_nameserver_for_ip, add_nameservers_from_resolv_conf *)

NameServerConfig(ip, port, protocol) ==
    [ip |-> ip, port |-> port, protocol |-> protocol]

DnsPort == 53

\* ResolverConfig::add_name_server pushes onto the list of name servers
add_name_server(cfg, ns) ==
    [cfg EXCEPT !.name_servers = Append(@, ns)]

add_nameserver_for_ip(cfg, ip) ==
    add_name_server(
        add_name_server(cfg, NameServerConfig(ip, DnsPort, "Udp")),
        NameServerConfig(ip, DnsPort, "Tcp"))

NameserverPrefix ==
    <<"n", "a", "m", "e", "s", "e", "r", "v", "e", "r", " ">>

\* the body of the loop over content.lines()
add_nameservers_from_line(raw, cfg) ==
    Bind(trim(raw), LAMBDA line :
        IF ~starts_with(line, NameserverPrefix) THEN cfg
        ELSE Bind(parse_IpAddr(
                      trim(trim_start_matches(line, NameserverPrefix))),
                  LAMBDA ip :
                      IF ip.some THEN add_nameserver_for_ip(cfg, ip.v)
                      ELSE cfg))

RECURSIVE add_nameservers_from_lines(_, _)
add_nameservers_from_lines(ls, cfg) ==
    IF ls = <<>> THEN cfg
    ELSE Bind(add_nameservers_from_line(Head(ls), cfg), LAMBDA next :
             add_nameservers_from_lines(Tail(ls), next))

add_nameservers_from_resolv_conf(text, cfg) ==
    add_nameservers_from_lines(lines(text), cfg)

ResolverConfig_new == [name_servers |-> <<>>]

-----------------------------------------------------------------------------
(* resolver_config_and_options, read_prefix_resolv_conf *)

ResolverOpts_default == [ndots |-> 1, attempts |-> 2]

\* ResolverConfig::google(): the Google addresses, each over UDP then TCP
ResolverConfig_google ==
    [name_servers |->
        <<NameServerConfig(V4(<<8, 8, 8, 8>>), DnsPort, "Udp"),
          NameServerConfig(V4(<<8, 8, 8, 8>>), DnsPort, "Tcp"),
          NameServerConfig(V4(<<8, 8, 4, 4>>), DnsPort, "Udp"),
          NameServerConfig(V4(<<8, 8, 4, 4>>), DnsPort, "Tcp"),
          NameServerConfig(V6(<<8193, 18528, 18528, 0, 0, 0, 0, 34952>>),
                           DnsPort, "Udp"),
          NameServerConfig(V6(<<8193, 18528, 18528, 0, 0, 0, 0, 34952>>),
                           DnsPort, "Tcp"),
          NameServerConfig(V6(<<8193, 18528, 18528, 0, 0, 0, 0, 34884>>),
                           DnsPort, "Udp"),
          NameServerConfig(V6(<<8193, 18528, 18528, 0, 0, 0, 0, 34884>>),
                           DnsPort, "Tcp")>>]

RelativeResolvConf == <<"e", "t", "c", "/", "r", "e", "s", "o", "l", "v", ".", "c", "o", "n", "f">>

\* std::env::var("PREFIX").unwrap_or_default(): unset or not Unicode is ""
env_var_or_default(os) ==
    Bind(IF os.some THEN into_string_ok(os.v) ELSE None, LAMBDA s :
        IF s.some THEN s.v ELSE <<>>)

\* PathBuf::from(base).join(rel), rel a relative path
path_join(base, rel) ==
    IF base = <<>> THEN rel
    ELSE IF base[Len(base)] = "/" THEN base \o rel
    ELSE base \o <<"/">> \o rel

resolv_conf_path(pfx) ==
    path_join(env_var_or_default(pfx), RelativeResolvConf)

\* the io::Result<String> of std::fs::read_to_string
read_prefix_resolv_conf(pfx, fs) == fs[resolv_conf_path(pfx)]

\* a resolver that adds the PREFIX file's name servers to the Google ones
resolver_config_mixing_sources(sys, pfx, fs) ==
    IF sys.ok
    THEN [config |-> sys.config, options |-> sys.options,
          system_reads |-> 1, file_reads |-> 0]
    ELSE Bind(read_prefix_resolv_conf(pfx, fs), LAMBDA file :
             [config |->
                 IF file.ok
                 THEN add_nameservers_from_resolv_conf(file.text,
                                                       ResolverConfig_google)
                 ELSE ResolverConfig_google,
              options |-> ResolverOpts_default,
              system_reads |-> 1, file_reads |-> 1])

\* The result carries, beside the pair returned, which sources were read.
resolver_config_and_options(sys, pfx, fs) ==
    IF sys.ok
    THEN [config |-> sys.config, options |-> sys.options,
          system_reads |-> 1, file_reads |-> 0]
    ELSE Bind(read_prefix_resolv_conf(pfx, fs), LAMBDA file :
         Bind(IF file.ok
              THEN add_nameservers_from_resolv_conf(file.text,
                                                    ResolverConfig_new)
              ELSE ResolverConfig_new,
              LAMBDA cfg :
                  IF cfg.name_servers = <<>>
                  THEN [config |-> ResolverConfig_google,
                        options |-> ResolverOpts_default,
                        system_reads |-> 1, file_reads |-> 1]
                  ELSE [config |-> cfg, options |-> ResolverOpts_default,
                        system_reads |-> 1, file_reads |-> 1]))

-----------------------------------------------------------------------------
(* TermuxResolver: new, clone, resolve *)

NoResolver == [built |-> FALSE, config |-> ResolverConfig_new,
               options |-> ResolverOpts_default]

\* Resolver::builder_with_config(config, ..), options_mut, build
build_resolver(cfg, opts) ==
    [built |-> TRUE, config |-> cfg, options |-> opts]

\* a constructor that leaves the builder's options at their default
TermuxResolver_new_without_options ==
    /\ ~new_result.called
    /\ \E r \in {resolver_config_and_options(system_conf, prefix, files)} :
           /\ resolver' = build_resolver(r.config, ResolverOpts_default)
           /\ probes' = [system_conf |-> probes.system_conf + r.system_reads,
                         resolv_conf |-> probes.resolv_conf + r.file_reads,
                         builds |-> probes.builds + 1]
    /\ new_result' = [called |-> TRUE, ok |-> TRUE]
    /\ handles' = 1
    /\ UNCHANGED <<system_conf, files, calls, dns, prefix>>
    /\ UNCHANGED detectVars
    /\ UNCHANGED parseVars

TermuxResolver_new ==
    /\ ~new_result.called
    /\ \E r \in {resolver_config_and_options(system_conf, prefix, files)} :
           /\ resolver' = build_resolver(r.config, r.options)
           /\ probes' = [system_conf |-> probes.system_conf + r.system_reads,
                         resolv_conf |-> probes.resolv_conf + r.file_reads,
                         builds |-> probes.builds + 1]
    /\ new_result' = [called |-> TRUE, ok |-> TRUE]
    /\ handles' = 1
    /\ UNCHANGED <<system_conf, files, calls, dns, prefix>>
    /\ UNCHANGED detectVars
    /\ UNCHANGED parseVars

MaxCalls == 2
MaxClones == 1

CallIds == 1..MaxCalls

SocketAddr(ip, port) == [ip |-> ip, port |-> port]

NoResult == [ok |-> FALSE, addrs |-> <<>>, err |-> "none"]
NoAnswer == [ok |-> FALSE, ips |-> <<>>, err |-> "none"]
IdleCall == [st |-> "idle", name |-> "", result |-> NoResult,
             after_failure |-> FALSE]
NoLookup == [st |-> "none", name |-> "", answer |-> NoAnswer, lookups |-> 0]

\* #[derive(Clone)]: a further handle on the same Arc<TokioResolver>
TermuxResolver_clone ==
    /\ new_result.called /\ new_result.ok
    /\ handles < 1 + MaxClones
    /\ handles' = handles + 1
    /\ UNCHANGED <<system_conf, files, resolver, new_result, calls, dns,
                   probes, prefix>>
    /\ UNCHANGED detectVars
    /\ UNCHANGED parseVars

\* resolve(&self, name): clones the Arc and boxes the future, not yet polled
resolve(c, name) ==
    /\ new_result.called /\ new_result.ok
    /\ calls[c].st = "idle"
    /\ calls' = [calls EXCEPT ![c] =
                    [st |-> "created", name |-> name, result |-> NoResult,
                     after_failure |->
                        \E d \in CallIds : /\ calls[d].st = "done"
                                           /\ ~calls[d].result.ok]]
    /\ UNCHANGED <<system_conf, files, resolver, new_result, handles, dns,
                   probes, prefix>>
    /\ UNCHANGED detectVars
    /\ UNCHANGED parseVars

\* first poll of the future: resolver.lookup_ip(name.as_str()) is issued
poll_lookup_ip(c) ==
    /\ calls[c].st = "created"
    /\ calls' = [calls EXCEPT ![c].st = "awaiting"]
    /\ dns' = [dns EXCEPT ![c] = [st |-> "pending", name |-> calls[c].name,
                                  answer |-> NoAnswer,
                                  lookups |-> dns[c].lookups + 1]]
    /\ UNCHANGED <<system_conf, files, resolver, new_result, handles,
                   probes, prefix>>
    /\ UNCHANGED detectVars
    /\ UNCHANGED parseVars

\* the DNS client finishes the lookup of one future with an answer
lookup_ip_complete(c, answer) ==
    /\ dns[c].st = "pending"
    /\ dns' = [dns EXCEPT ![c].st = "ready", ![c].answer = answer]
    /\ UNCHANGED <<system_conf, files, resolver, new_result, handles, calls,
                   probes, prefix>>
    /\ UNCHANGED detectVars
    /\ UNCHANGED parseVars

\* a mapping that gives every address the DNS port
to_addrs_on_dns_port(ips) ==
    [i \in 1..Len(ips) |-> SocketAddr(ips[i], DnsPort)]

\* lookup.into_iter().map(|ip| SocketAddr::new(ip, 0))
to_addrs(ips) == [i \in 1..Len(ips) |-> SocketAddr(ips[i], 0)]

\* `?` on the lookup, then Ok(addrs)
resolve_output(answer) ==
    IF answer.ok
    THEN [ok |-> TRUE, addrs |-> to_addrs(answer.ips), err |-> "none"]
    ELSE [ok |-> FALSE, addrs |-> <<>>, err |-> answer.err]

\* every future reading the answer of the first lookup
lookup_slot_of_first_call(c) == 1

\* the slot of the DNS client a resumed future reads its answer from
lookup_slot(c) == c

\* a future that drops the shared client when its lookup fails
resume_dropping_client_on_error(c) ==
    /\ calls[c].st = "awaiting"
    /\ dns[lookup_slot(c)].st = "ready"
    /\ calls' = [calls EXCEPT
                    ![c].st = "done",
                    ![c].result = resolve_output(dns[lookup_slot(c)].answer)]
    /\ dns' = [dns EXCEPT ![lookup_slot(c)].st = "taken"]
    /\ resolver' = IF dns[lookup_slot(c)].answer.ok THEN resolver
                   ELSE NoResolver
    /\ UNCHANGED <<system_conf, files, new_result, handles, probes, prefix>>
    /\ UNCHANGED detectVars
    /\ UNCHANGED parseVars

\* the future is polled again once its lookup is ready, and completes
resume(c) ==
    /\ calls[c].st = "awaiting"
    /\ dns[lookup_slot(c)].st = "ready"
    /\ calls' = [calls EXCEPT
                    ![c].st = "done",
                    ![c].result = resolve_output(dns[lookup_slot(c)].answer)]
    /\ dns' = [dns EXCEPT ![lookup_slot(c)].st = "taken"]
    /\ UNCHANGED <<system_conf, files, resolver, new_result, handles,
                   probes, prefix>>
    /\ UNCHANGED detectVars
    /\ UNCHANGED parseVars

\* add_nameservers_from_resolv_conf(&content, &mut config) on a new config
parse_resolv_conf ==
    /\ ~parse_done
    /\ config' = add_nameservers_from_resolv_conf(content, config)
    /\ parse_done' = TRUE
    /\ UNCHANGED <<lines_in, content, prefix>>
    /\ UNCHANGED detectVars
    /\ UNCHANGED resolverVars

-----------------------------------------------------------------------------
(* Inputs *)

Ip1111 == <<"1", ".", "1", ".", "1", ".", "1">>
Ip8888 == <<"8", ".", "8", ".", "8", ".", "8">>
Ip9999 == <<"9", ".", "9", ".", "9", ".", "9">>

\* the text of tests::test_parse_resolv_conf_contents, line by line
TestLines ==
    <<NameserverPrefix \o Ip1111,
      NameserverPrefix \o Ip8888,
      <<"#", " ", "c", "o", "m", "m", "e", "n", "t">>,
      <<" ", " ">> \o NameserverPrefix \o Ip9999 \o <<" ", " ">>>>

ResolvConfLines ==
    {TestLines[i] : i \in 1..Len(TestLines)} \cup
    {<<>>,
     NameserverPrefix \o <<"n", "o", "t", "-", "a", "n", "-", "i", "p">>,
     NameserverPrefix \o NameserverPrefix \o Ip1111,
     <<"n", "a", "m", "e", "s", "e", "r", "v", "e", "r", "\t", "1", ".", "1", ".", "1", ".", "1">>,
     <<"s", "e", "a", "r", "c", "h", " ", "l", "a", "n">>,
     NameserverPrefix \o <<"f", "e", "8", "0", ":", ":", "1">>,
     NameserverPrefix \o <<":", ":", "f", "f", "f", "f", ":", "1", ".", "1", ".", "1", ".", "1">>,
     NameserverPrefix \o <<"2", "5", "6", ".", "1", ".", "1", ".", "1">>,
     NameserverPrefix \o <<" ">> \o Ip8888,
     NameserverPrefix \o Ip1111 \o <<" ", "#", "x">>,
     <<"#", "n", "a", "m", "e", "s", "e", "r", "v", "e", "r", " ">> \o Ip1111}

MaxLines == 2

RECURSIVE LineSeqs(_)
LineSeqs(n) ==
    IF n = 0 THEN {<<>>}
    ELSE Bind(LineSeqs(n - 1), LAMBDA shorter :
             shorter \cup {Append(ls, l) : ls \in shorter,
                                           l \in ResolvConfLines})

RECURSIVE JoinLines(_, _, _)
JoinLines(ls, terminator, last_terminated) ==
    IF ls = <<>> THEN <<>>
    ELSE IF Len(ls) = 1
    THEN Head(ls) \o (IF last_terminated THEN terminator ELSE <<>>)
    ELSE Head(ls) \o terminator
             \o JoinLines(Tail(ls), terminator, last_terminated)

LineTerminators == {<<"\n">>, <<"\r", "\n">>}

TermuxPrefix == <<"/", "d", "a", "t", "a", "/", "d", "a", "t", "a", "/", "c", "o", "m", ".", "t", "e", "r", "m", "u", "x", "/", "f", "i", "l", "e", "s", "/", "u", "s", "r">>

InitDetector ==
    /\ is_android \in BOOLEAN
    /\ termux_version \in {None, Some(<<>>), Some(<<"0", ".", "1", "1", "8", ".", "0">>),
                           Some(<<BadByte>>)}
    /\ prefix \in {None} \cup
          {Some(Concat(<<h, m, t>>)) :
              h \in {<<>>, <<"/", "d", "a", "t", "a", "/", "d", "a", "t", "a">>},
              m \in {TermuxFragment, <<"/", "c", "o", "m", ".", "t", "e", "r", "m", "u", "x">>, <<"c", "o", "m", ".", "t", "e", "r", "m", "u", "x", "/">>, <<"/", "c", "o", "m", "/", "t", "e", "r", "m", "u", "x", "/">>, <<"/", "u", "s", "r">>, <<"/", "C", "O", "M", ".", "T", "E", "R", "M", "U", "X", "/">>, <<>>,
                     <<"/", "c", "o", "m", ".">> \o <<BadByte>> \o <<"t", "e", "r", "m", "u", "x", "/">>},
              t \in {<<>>, <<"f", "i", "l", "e", "s", "/", "u", "s", "r">>, <<BadByte>>}}
    /\ install = [called |-> FALSE, result |-> FALSE]

IdleParser ==
    /\ lines_in = <<>>
    /\ content = <<>>
    /\ config = ResolverConfig_new
    /\ parse_done = FALSE

IdleDetector ==
    /\ is_android = FALSE
    /\ termux_version = None
    /\ install = [called |-> FALSE, result |-> FALSE]

IdleResolver ==
    /\ resolver = NoResolver
    /\ new_result = [called |-> FALSE, ok |-> FALSE]
    /\ handles = 0
    /\ calls = [c \in CallIds |-> IdleCall]
    /\ dns = [c \in CallIds |-> NoLookup]
    /\ probes = [system_conf |-> 0, resolv_conf |-> 0, builds |-> 0]

InitParser ==
    /\ lines_in \in LineSeqs(MaxLines) \cup {TestLines}
    /\ \E terminator \in LineTerminators, last_terminated \in BOOLEAN :
          content = JoinLines(lines_in, terminator, last_terminated)
    /\ config = ResolverConfig_new
    /\ parse_done = FALSE

SystemConfig ==
    add_nameserver_for_ip(ResolverConfig_new, V4(<<192, 168, 1, 1>>))
SystemOpts == [ndots |-> 2, attempts |-> 3]

SystemConfErr ==
    [ok |-> FALSE, config |-> ResolverConfig_new,
     options |-> ResolverOpts_default]
SystemConfOk(cfg, opts) == [ok |-> TRUE, config |-> cfg, options |-> opts]

\* read_system_conf(): an error, or the parsed system file, which may name
\* no name server at all
SystemConfOutcomes ==
    {SystemConfErr,
     SystemConfOk(SystemConfig, SystemOpts),
     SystemConfOk(ResolverConfig_new, ResolverOpts_default)}

FileErr(kind) == [ok |-> FALSE, text |-> <<>>, err |-> kind]
FileOk(text) == [ok |-> TRUE, text |-> text, err |-> "none"]

CommentsOnly == <<"#", " ", "G", "e", "n", "e", "r", "a", "t", "e", "d", " ", "b", "y", " ", "r", "e", "s", "o", "l", "v", "c", "o", "n", "f", "\n", "\n", " ", " ", " ", "\n", "#", "n", "a", "m", "e", "s", "e", "r", "v", "e", "r", " ", "1", ".", "1", ".", "1", ".", "1", "\n">>

FileTexts ==
    {<<>>,
     CommentsOnly,
     JoinLines(TestLines, <<"\n">>, FALSE),
     NameserverPrefix \o Ip9999 \o <<"\n">>,
     NameserverPrefix \o <<"n", "o", "t", "-", "a", "n", "-", "i", "p">> \o <<"\n">>,
     NameserverPrefix \o NameserverPrefix \o Ip1111 \o <<"\n">>}

FileOutcomes ==
    {FileErr("NotFound"), FileErr("PermissionDenied")} \cup
    {FileOk(t) : t \in FileTexts}

PrefixValues ==
    {None, Some(<<"/", "u", "s", "r">>), Some(TermuxPrefix),
     Some(TermuxPrefix \o <<BadByte>>)}

Paths == {resolv_conf_path(p) : p \in PrefixValues}

InitConfig ==
    /\ system_conf \in SystemConfOutcomes
    /\ prefix \in PrefixValues
    /\ files \in [Paths -> FileOutcomes]
    /\ IdleResolver
    /\ IdleDetector
    /\ IdleParser

\* the environments of the resolver's life: every system outcome, with the
\* prefix unset and no file, or the Termux prefix with a file
Init ==
    /\ system_conf \in SystemConfOutcomes
    /\ \E e \in {<<None, FileErr("NotFound")>>,
                 <<Some(TermuxPrefix),
                   FileOk(JoinLines(TestLines, <<"\n">>, FALSE))>>,
                 <<Some(TermuxPrefix), FileOk(CommentsOnly)>>} :
          /\ prefix = e[1]
          /\ files = [p \in Paths |->
                         IF p = resolv_conf_path(e[1]) THEN e[2]
                         ELSE FileErr("NotFound")]
    /\ IdleResolver
    /\ IdleDetector
    /\ IdleParser

HostNames == {"example.com", "termux.dev"}

IpA == V4(<<93, 184, 216, 34>>)
IpB == V6(<<9734, 10240, 33, 0, 0, 0, 0, 1>>)

LookupOk(ips) == [ok |-> TRUE, ips |-> ips, err |-> "none"]
LookupErr(e) == [ok |-> FALSE, ips |-> <<>>, err |-> e]

\* what lookup_ip can answer: addresses in the client's order, or its error
LookupAnswers ==
    {LookupOk(<<IpA>>), LookupOk(<<IpB, IpA>>),
     LookupErr("NoRecordsFound"), LookupErr("Timeout")}

Resolve == \E c \in CallIds, name \in HostNames : resolve(c, name)
Poll == \E c \in CallIds : poll_lookup_ip(c)
LookupComplete ==
    \E c \in CallIds, answer \in LookupAnswers : lookup_ip_complete(c, answer)
Resume == \E c \in CallIds : resume(c)

Next ==
    \/ TermuxResolver_new
    \/ TermuxResolver_clone
    \/ Resolve
    \/ Poll
    \/ LookupComplete
    \/ Resume

Spec == Init /\ [][Next]_vars

NextConfig == TermuxResolver_new

SpecConfig == InitConfig /\ [][NextConfig]_vars

InitParse ==
    /\ InitParser
    /\ prefix = None
    /\ IdleDetector
    /\ IdleResolver
    /\ system_conf = SystemConfErr
    /\ files = [p \in Paths |-> FileErr("NotFound")]

NextParse == parse_resolv_conf

SpecParse == InitParse /\ [][NextParse]_vars

InitDetect ==
    /\ InitDetector
    /\ IdleParser
    /\ IdleResolver
    /\ system_conf = SystemConfErr
    /\ files = [p \in Paths |-> FileErr("NotFound")]

NextDetect == should_install_termux_resolver

SpecDetect == InitDetect /\ [][NextDetect]_vars

-----------------------------------------------------------------------------
(* The nameserver directive as the specification words it: the prefix      *)
(* `nameserver ` is removed once from the trimmed line and what remains,   *)
(* trimmed, must be an IP address.                                         *)

DirectiveIp(raw) ==
    LET line == trim(raw)
    IN  IF starts_with(line, NameserverPrefix)
        THEN parse_IpAddr(trim(SubSeq(line, Len(NameserverPrefix) + 1,
                                      Len(line))))
        ELSE None

RECURSIVE DirectiveEntries(_)
DirectiveEntries(ls) ==
    IF ls = <<>> THEN <<>>
    ELSE (IF DirectiveIp(Head(ls)).some
          THEN <<NameServerConfig(DirectiveIp(Head(ls)).v, 53, "Udp"),
                 NameServerConfig(DirectiveIp(Head(ls)).v, 53, "Tcp")>>
          ELSE <<>>) \o DirectiveEntries(Tail(ls))

\* the file the configuration resolver falls back to, and what it parses to
PrefixFile == files[resolv_conf_path(prefix)]
PrefixFileEntries ==
    IF PrefixFile.ok
    THEN add_nameservers_from_resolv_conf(PrefixFile.text,
                                          ResolverConfig_new).name_servers
    ELSE <<>>

-----------------------------------------------------------------------------
(* Claims *)

\* C1: the detector returns true exactly when is_android is true, or
\* TERMUX_VERSION is present (with any value, the empty one included), or
\* PREFIX is present with a string value (a value that is valid Unicode)
\* which contains "/com.termux/"; in every other case it returns false.
C1_DetectorIffSignal ==
    install.called =>
        (install.result <=>
            \/ is_android
            \/ termux_version # None
            \/ /\ prefix # None
               /\ BadByte \notin {prefix.v[i] : i \in 1..Len(prefix.v)}
               /\ \E i \in 1..Len(prefix.v) :
                     /\ i + Len(TermuxFragment) - 1 <= Len(prefix.v)
                     /\ \A k \in 1..Len(TermuxFragment) :
                           prefix.v[i + k - 1] = TermuxFragment[k])

\* C1 witness: only the PREFIX signal is present, and the detector said yes
C1_Witness ==
    /\ install.called
    /\ install.result
    /\ ~is_android
    /\ termux_version = None
    /\ prefix = Some(TermuxPrefix)

\* C2: the configuration comes from exactly one source, in priority order:
\* the system configuration and options verbatim when the system read
\* succeeds (the PREFIX file is then not read); else the entries parsed from
\* the PREFIX file when there is at least one, with default options; else
\* the Google configuration with default options.
C2_OneSourceInPriorityOrder ==
    new_result.called =>
        IF system_conf.ok
        THEN /\ resolver.config = system_conf.config
             /\ resolver.options = system_conf.options
             /\ probes.resolv_conf = 0
        ELSE /\ resolver.options = ResolverOpts_default
             /\ IF PrefixFileEntries # <<>>
                THEN resolver.config.name_servers = PrefixFileEntries
                ELSE resolver.config = ResolverConfig_google

\* C2 witness: the system read failed and the PREFIX file supplied the six
\* entries of its three nameserver lines
C2_Witness ==
    /\ new_result.called
    /\ ~system_conf.ok
    /\ PrefixFile = FileOk(JoinLines(TestLines, <<"\n">>, FALSE))
    /\ Len(resolver.config.name_servers) = 6
    /\ resolver.options = ResolverOpts_default

\* C3: the configuration returned always holds at least one name server,
\* whatever the system read, the PREFIX file and PREFIX are.
C3_AlwaysSomeNameServer ==
    new_result.called => resolver.config.name_servers # <<>>

\* C4: the entries added are, line by line in the order of the text, the
\* UDP entry then the TCP entry on port 53 of every line holding a valid
\* `nameserver <ip>` directive, and nothing else: twice as many entries as
\* there are valid nameserver lines.
C4_PairPerValidLine ==
    parse_done => config.name_servers = DirectiveEntries(lines_in)

\* C5: when the system read has failed and the PREFIX file holds only blank
\* lines, comments, other directives and nameserver lines whose value is
\* not an IP address, the configuration returned is the hardcoded default.
C5_OnlySkippedLinesGivesDefault ==
    (/\ new_result.called
     /\ ~system_conf.ok
     /\ PrefixFile.ok
     /\ \A i \in 1..Len(lines(PrefixFile.text)) :
           ~DirectiveIp(lines(PrefixFile.text)[i]).some)
        => resolver.config = ResolverConfig_google

\* C10: a line yields entries only if what follows the first `nameserver `
\* of the trimmed line is, after trimming, an IP address.
C10_PrefixRemovedOnce ==
    (/\ parse_done
     /\ Len(lines_in) = 1
     /\ config.name_servers # <<>>)
        => DirectiveIp(lines_in[1]).some

\* C6: a finished resolve has made one lookup of its own name; an answer
\* [ip1..ipn] gives [(ip1,0)..(ipn,0)] in the same order, an error gives
\* that same error and no address.
C6_ResolveMapsTheAnswer ==
    \A c \in CallIds :
        calls[c].st = "done" =>
            /\ dns[c].lookups = 1
            /\ dns[c].name = calls[c].name
            /\ IF dns[c].answer.ok
               THEN /\ calls[c].result.ok
                    /\ Len(calls[c].result.addrs) = Len(dns[c].answer.ips)
                    /\ \A i \in 1..Len(dns[c].answer.ips) :
                          /\ calls[c].result.addrs[i].ip
                                = dns[c].answer.ips[i]
                          /\ calls[c].result.addrs[i].port = 0
               ELSE /\ ~calls[c].result.ok
                    /\ calls[c].result.err = dns[c].answer.err
                    /\ calls[c].result.addrs = <<>>

\* C6 witness: a resolve finished on a two-address answer
C6_Witness ==
    \E c \in CallIds :
        /\ calls[c].st = "done"
        /\ dns[c].answer = LookupOk(<<IpB, IpA>>)
        /\ calls[c].result.ok

\* C7: under every interleaving, a step of one resolve call leaves every
\* other call's future and lookup as they were, a call that finishes
\* yields the mapping of the answer to its own lookup of its own name, and
\* the resolver built at construction is never written again.
C7_CallsAreIndependent ==
    [][/\ resolver.built => resolver' = resolver
       /\ \A c \in CallIds :
             (calls'[c] # calls[c] \/ dns'[c] # dns[c]) =>
                 /\ \A d \in CallIds \ {c} :
                       calls'[d] = calls[d] /\ dns'[d] = dns[d]
                 /\ calls'[c].st = "done" =>
                       /\ dns[c].name = calls[c].name
                       /\ calls'[c].result = resolve_output(dns[c].answer)]_vars

\* C7 witness: one call has finished on an error while another call, for
\* another name, holds a ready answer it has not yet taken
C7_Witness ==
    \E c, d \in CallIds :
        /\ calls[c].st = "done"
        /\ ~calls[c].result.ok
        /\ calls[d].st = "awaiting"
        /\ dns[d].st = "ready"
        /\ dns[d].answer.ok
        /\ calls[c].name # calls[d].name

\* C8: construction returns Ok under every outcome of the configuration
\* resolution, resolver_config_and_options has run once, the client owned
\* when construction returns (before any resolve call runs) is built from
\* exactly the pair it returned, and no resolve call exists before that.
C8_NewOkFromThePair ==
    /\ new_result.called =>
          /\ new_result.ok
          /\ probes.builds = 1
          /\ probes.system_conf = 1
          /\ resolver.built
    /\ (new_result.called /\ \A c \in CallIds : calls[c].st = "idle") =>
          LET pair == resolver_config_and_options(system_conf, prefix, files)
          IN  resolver = build_resolver(pair.config, pair.options)
    /\ (\E c \in CallIds : calls[c].st # "idle") => new_result.called

\* C8 witness: with no system configuration and no PREFIX file construction
\* has returned Ok with a client on the default, and no call has run yet
C8_Witness ==
    /\ new_result.called
    /\ new_result.ok
    /\ ~system_conf.ok
    /\ ~PrefixFile.ok
    /\ resolver.config = ResolverConfig_google
    /\ \A c \in CallIds : calls[c].st = "idle"

\* C9: a step that ends with a failed resolve call on record leaves the
\* resolver (its client and configuration) as it was, and a call started
\* after a failure that finishes yields the mapping of its own answer, as
\* it would on a new resolver.
C9_ReusableAfterFailure ==
    [][(\E d \in CallIds : calls'[d].st = "done" /\ ~calls'[d].result.ok) =>
          /\ resolver' = resolver
          /\ new_result' = new_result
          /\ \A c \in CallIds :
                (/\ calls[c].after_failure
                 /\ calls[c].st = "awaiting"
                 /\ calls'[c].st = "done") =>
                    /\ dns[c].lookups = 1
                    /\ calls'[c].result = resolve_output(dns[c].answer)]_vars

\* C9 witness: a call started after a failed one has finished with addresses
C9_Witness ==
    \E c \in CallIds :
        /\ calls[c].after_failure
        /\ calls[c].st = "done"
        /\ calls[c].result.ok
        /\ Len(calls[c].result.addrs) = 2

====
